---- MODULE Spec2Model ----
(***************************************************************************)
(* LZMA2 chunk framing decoder (src/liblzma/lzma/lzma2_decoder.c).         *)
(*                                                                         *)
(* The coder structure is the record `coder`; one loop iteration of        *)
(* lzma2_decode is one action, the position inside a call is `pc`.         *)
(* The dictionary and the inner LZMA decoder are external collaborators:   *)
(* the calls made to them are recorded as events.                          *)
(***************************************************************************)
EXTENDS Integers, Sequences, FiniteSets, TLC

VARIABLES
    coder,      \* struct lzma_coder_s
    pc,         \* "idle": between calls, "loop": inside lzma2_decode, "done": a call returned a status other than LZMA_OK
    in_pos,     \* *in_pos, counted from the start of the session's input
    in_size,    \* in_size of the running call, counted likewise
    dict_avail, \* dict->limit - dict->pos: room left in the dictionary during the running call
    ret,        \* status returned by the last call ("none" while a call runs)
    last,       \* the last loop iteration: phase it ran in, byte it read, bytes it consumed
    ev,         \* calls the last loop iteration made on the dictionary and the inner decoder
    hdr,        \* header bytes of the current chunk read so far, control byte first
    body,       \* body bytes of the current chunk consumed so far
    hist,       \* what has happened since the session was initialised
    props,      \* lzma_lzma2_props_decode: payload, allocation outcome
    props_out,  \* lzma_lzma2_props_decode: result
    stream,     \* resumability: the whole input and the inner decoder's plan
    rs,         \* resumability: the session fed piece by piece
    twin        \* re-initialisation: a second session fed the same pieces

vars == <<coder, pc, in_pos, in_size, dict_avail, ret, last, ev, hdr, body,
          hist, props, props_out, stream, rs, twin>>

(***************************************************************************)
(* Bounds of the model.                                                    *)
(***************************************************************************)
MaxFed == 13      \* input bytes offered to one session
MaxPiece == 2     \* bytes offered to one call
MaxDict == 2      \* dictionary room offered to one call
MaxPropsLen == 2  \* length of a properties payload
MaxStream == 9    \* resumability: length of the input
MaxNeed == 2      \* resumability: bytes the inner decoder takes of a chunk
MaxTwin == 8      \* re-initialisation: length of the input
MaxChunks == 2    \* progress: chunks of a well-formed stream

\* Byte values the input takes where the decoder reads a control byte, a byte
\* of the uncompressed size, a byte of the compressed size, a properties byte.
ControlBytes == {0, 1, 2, 3, 127, 128, 160, 191, 192, 224, 255}
UncompressedBytes == {0, 255}
SizeBytes == {0, 1, 255}
PropBytes == {0, 40, 41, 64}

(***************************************************************************)
(* Statuses and phases.                                                    *)
(***************************************************************************)
LZMA_OK == "LZMA_OK"
LZMA_STREAM_END == "LZMA_STREAM_END"
LZMA_DATA_ERROR == "LZMA_DATA_ERROR"
LZMA_PROG_ERROR == "LZMA_PROG_ERROR"
LZMA_OPTIONS_ERROR == "LZMA_OPTIONS_ERROR"
LZMA_MEM_ERROR == "LZMA_MEM_ERROR"

\* "break": the case left the switch without returning; the loop goes on.
BREAK == "break"

Sequence == {"SEQ_CONTROL", "SEQ_UNCOMPRESSED_1", "SEQ_UNCOMPRESSED_2",
             "SEQ_COMPRESSED_0", "SEQ_COMPRESSED_1", "SEQ_PROPERTIES",
             "SEQ_LZMA", "SEQ_COPY"}

\* A value of enum sequence outside the eight enumerators (uninitialised memory).
SEQ_GARBAGE == "SEQ_GARBAGE"

\* Options that no properties byte has written yet (uninitialised memory).
OPT_GARBAGE == -1

(***************************************************************************)
(* Events: calls on the dictionary and on the inner decoder.               *)
(***************************************************************************)
Event(op, a, b) == [op |-> op, a |-> a, b |-> b]
DictReset == Event("dict_reset", 0, "")
DictWriteEv(n) == Event("dict_write", n, "")
LzmaReset(opt) == Event("lzma_reset", opt, "")
SetUncompressed(n) == Event("set_uncompressed", n, "")
LzmaCode(used, r) == Event("lzma_code", used, r)

\* Outcome of one loop iteration.
Out(c, r, used, e) == [coder |-> c, ret |-> r, used |-> used, ev |-> e]

Min(a, b) == IF a < b THEN a ELSE b

(***************************************************************************)
(* Collaborators that live outside lzma2_decoder.c.                        *)
(***************************************************************************)

\* dict_write(dict, in, in_pos, in_size, &left): copies input to the
\* dictionary, bounded by the input available, by `left` and by the room in
\* the dictionary; returns the number of bytes copied.
dict_write(avail, left, room) == Min(Min(avail, left), room)

\* lzma_lzma_lclppb_decode(&options, byte): decodes a properties byte into
\* the options; error is TRUE when the byte is rejected.  The options are
\* identified by the byte they were decoded from.
lzma_lzma_lclppb_decode(b) ==
    [error |-> (b \div 64) # 0 \/ b > 40, options |-> b]

\* Statuses coder->lzma.code may return.
LzmaRets == {LZMA_OK, LZMA_STREAM_END, LZMA_DATA_ERROR}

(***************************************************************************)
(* lzma2_decode: the cases of the switch, one loop iteration each.         *)
(* b is in[*in_pos]; byte arithmetic is written with \div and %:           *)
(*   b & 0x80 # 0  is  b >= 128        b & 0x1F       is  b % 32           *)
(*   (b >> 5) & 3  is  (b \div 32) % 4  x << 16       is  x * 65536        *)
(***************************************************************************)

\* Mutant of ControlLzma: reset level 2 is accepted without looking at
\* need_dictionary_reset.
ControlLzma_Level2Unchecked(c, b) ==
    LET c1 == [c EXCEPT !.uncompressed_size = (b % 32) * 65536,
                        !.sequence = "SEQ_UNCOMPRESSED_1"]
        level == (b \div 32) % 4
        c3 == IF level = 3
                THEN [c1 EXCEPT !.need_dictionary_reset = FALSE]
                ELSE c1
        ev3 == IF level = 3 THEN <<DictReset>> ELSE <<>>
    IN  CASE level \in {2, 3} ->
              Out([c3 EXCEPT !.need_properties = FALSE,
                             !.next_sequence = "SEQ_PROPERTIES"],
                  BREAK, 1, ev3)
          [] level = 1 ->
              IF c1.need_properties
                THEN Out(c1, LZMA_DATA_ERROR, 1, <<>>)
                ELSE Out([c1 EXCEPT !.next_sequence = "SEQ_LZMA"],
                         BREAK, 1, <<LzmaReset(c1.options)>>)
          [] level = 0 ->
              IF c1.need_properties
                THEN Out(c1, LZMA_DATA_ERROR, 1, <<>>)
                ELSE Out([c1 EXCEPT !.next_sequence = "SEQ_LZMA"],
                         BREAK, 1, <<>>)

\* Mutant of ControlLzma: reset level 2 clears need_properties before it
\* looks at need_dictionary_reset.
ControlLzma_ClearBeforeCheck(c, b) ==
    LET c1 == [c EXCEPT !.uncompressed_size = (b % 32) * 65536,
                        !.sequence = "SEQ_UNCOMPRESSED_1"]
        level == (b \div 32) % 4
        c3 == IF level = 3
                THEN [c1 EXCEPT !.need_dictionary_reset = FALSE]
                ELSE c1
        c2 == [c3 EXCEPT !.need_properties = FALSE]
        ev3 == IF level = 3 THEN <<DictReset>> ELSE <<>>
    IN  CASE level \in {2, 3} ->
              IF c2.need_dictionary_reset
                THEN Out(c2, LZMA_DATA_ERROR, 1, ev3)
                ELSE Out([c2 EXCEPT !.next_sequence = "SEQ_PROPERTIES"],
                         BREAK, 1, ev3)
          [] level = 1 ->
              IF c1.need_properties
                THEN Out(c1, LZMA_DATA_ERROR, 1, <<>>)
                ELSE Out([c1 EXCEPT !.next_sequence = "SEQ_LZMA"],
                         BREAK, 1, <<LzmaReset(c1.options)>>)
          [] level = 0 ->
              IF c1.need_properties
                THEN Out(c1, LZMA_DATA_ERROR, 1, <<>>)
                ELSE Out([c1 EXCEPT !.next_sequence = "SEQ_LZMA"],
                         BREAK, 1, <<>>)

\* Mutant of ControlLzma: reset level 0 leaves next_sequence as the chunk
\* before set it.
ControlLzma_Level0KeepsNext(c, b) ==
    LET c1 == [c EXCEPT !.uncompressed_size = (b % 32) * 65536,
                        !.sequence = "SEQ_UNCOMPRESSED_1"]
        level == (b \div 32) % 4
        c3 == IF level = 3
                THEN [c1 EXCEPT !.need_dictionary_reset = FALSE]
                ELSE c1
        ev3 == IF level = 3 THEN <<DictReset>> ELSE <<>>
    IN  CASE level \in {2, 3} ->
              IF c3.need_dictionary_reset
                THEN Out(c3, LZMA_DATA_ERROR, 1, ev3)
                ELSE Out([c3 EXCEPT !.need_properties = FALSE,
                                    !.next_sequence = "SEQ_PROPERTIES"],
                         BREAK, 1, ev3)
          [] level = 1 ->
              IF c1.need_properties
                THEN Out(c1, LZMA_DATA_ERROR, 1, <<>>)
                ELSE Out([c1 EXCEPT !.next_sequence = "SEQ_LZMA"],
                         BREAK, 1, <<LzmaReset(c1.options)>>)
          [] level = 0 ->
              IF c1.need_properties
                THEN Out(c1, LZMA_DATA_ERROR, 1, <<>>)
                ELSE Out(c1, BREAK, 1, <<>>)

\* Mutant of ControlLzma: the high bits of the uncompressed size are added
\* to what uncompressed_size held.
ControlLzma_AddsHighBits(c, b) ==
    LET c1 == [c EXCEPT !.uncompressed_size = @ + (b % 32) * 65536,
                        !.sequence = "SEQ_UNCOMPRESSED_1"]
        level == (b \div 32) % 4
        c3 == IF level = 3
                THEN [c1 EXCEPT !.need_dictionary_reset = FALSE]
                ELSE c1
        ev3 == IF level = 3 THEN <<DictReset>> ELSE <<>>
    IN  CASE level \in {2, 3} ->
              IF c3.need_dictionary_reset
                THEN Out(c3, LZMA_DATA_ERROR, 1, ev3)
                ELSE Out([c3 EXCEPT !.need_properties = FALSE,
                                    !.next_sequence = "SEQ_PROPERTIES"],
                         BREAK, 1, ev3)
          [] level = 1 ->
              IF c1.need_properties
                THEN Out(c1, LZMA_DATA_ERROR, 1, <<>>)
                ELSE Out([c1 EXCEPT !.next_sequence = "SEQ_LZMA"],
                         BREAK, 1, <<LzmaReset(c1.options)>>)
          [] level = 0 ->
              IF c1.need_properties
                THEN Out(c1, LZMA_DATA_ERROR, 1, <<>>)
                ELSE Out([c1 EXCEPT !.next_sequence = "SEQ_LZMA"],
                         BREAK, 1, <<>>)

\* SEQ_CONTROL, control byte with bit 7 set: LZMA chunk.
ControlLzma(c, b) ==
    LET c1 == [c EXCEPT !.uncompressed_size = (b % 32) * 65536,
                        !.sequence = "SEQ_UNCOMPRESSED_1"]
        level == (b \div 32) % 4
        c3 == IF level = 3
                THEN [c1 EXCEPT !.need_dictionary_reset = FALSE]
                ELSE c1
        ev3 == IF level = 3 THEN <<DictReset>> ELSE <<>>
    IN  CASE level \in {2, 3} ->
              IF c3.need_dictionary_reset
                THEN Out(c3, LZMA_DATA_ERROR, 1, ev3)
                ELSE Out([c3 EXCEPT !.need_properties = FALSE,
                                    !.next_sequence = "SEQ_PROPERTIES"],
                         BREAK, 1, ev3)
          [] level = 1 ->
              IF c1.need_properties
                THEN Out(c1, LZMA_DATA_ERROR, 1, <<>>)
                ELSE Out([c1 EXCEPT !.next_sequence = "SEQ_LZMA"],
                         BREAK, 1, <<LzmaReset(c1.options)>>)
          [] level = 0 ->
              IF c1.need_properties
                THEN Out(c1, LZMA_DATA_ERROR, 1, <<>>)
                ELSE Out([c1 EXCEPT !.next_sequence = "SEQ_LZMA"],
                         BREAK, 1, <<>>)

\* Mutant of ControlOther: the dictionary reset of control byte 0x01 clears
\* need_properties too.
ControlOther_ResetClearsProperties(c, b) ==
    LET c1 == IF b = 1
                THEN [c EXCEPT !.need_dictionary_reset = FALSE,
                               !.need_properties = FALSE]
                ELSE c
        ev1 == IF b = 1 THEN <<DictReset>> ELSE <<>>
    IN  CASE b = 0 -> Out(c, LZMA_STREAM_END, 1, <<>>)
          [] b \in {1, 2} ->
              IF c1.need_dictionary_reset
                THEN Out(c1, LZMA_DATA_ERROR, 1, ev1)
                ELSE Out([c1 EXCEPT !.sequence = "SEQ_COMPRESSED_0",
                                    !.next_sequence = "SEQ_COPY"],
                         BREAK, 1, ev1)
          [] OTHER -> Out(c, LZMA_DATA_ERROR, 1, <<>>)

\* Mutant of ControlOther: the end marker is refused while a dictionary
\* reset is still needed.
ControlOther_EndNeedsReset(c, b) ==
    LET c1 == IF b = 1 THEN [c EXCEPT !.need_dictionary_reset = FALSE] ELSE c
        ev1 == IF b = 1 THEN <<DictReset>> ELSE <<>>
    IN  CASE b = 0 /\ ~c.need_dictionary_reset ->
              Out(c, LZMA_STREAM_END, 1, <<>>)
          [] b \in {1, 2} ->
              IF c1.need_dictionary_reset
                THEN Out(c1, LZMA_DATA_ERROR, 1, ev1)
                ELSE Out([c1 EXCEPT !.sequence = "SEQ_COMPRESSED_0",
                                    !.next_sequence = "SEQ_COPY"],
                         BREAK, 1, ev1)
          [] OTHER -> Out(c, LZMA_DATA_ERROR, 1, <<>>)

\* Mutant of ControlOther: control byte 0x03 starts a raw chunk like 0x02.
ControlOther_ThreeIsRaw(c, b) ==
    LET c1 == IF b = 1 THEN [c EXCEPT !.need_dictionary_reset = FALSE] ELSE c
        ev1 == IF b = 1 THEN <<DictReset>> ELSE <<>>
    IN  CASE b = 0 -> Out(c, LZMA_STREAM_END, 1, <<>>)
          [] b \in {1, 2, 3} ->
              IF c1.need_dictionary_reset
                THEN Out(c1, LZMA_DATA_ERROR, 1, ev1)
                ELSE Out([c1 EXCEPT !.sequence = "SEQ_COMPRESSED_0",
                                    !.next_sequence = "SEQ_COPY"],
                         BREAK, 1, ev1)
          [] OTHER -> Out(c, LZMA_DATA_ERROR, 1, <<>>)

\* Mutant of ControlOther: the dictionary reset of control byte 0x01 makes
\* the next LZMA chunk carry properties again.
ControlOther_ResetRearmsProperties(c, b) ==
    LET c1 == IF b = 1
                THEN [c EXCEPT !.need_dictionary_reset = FALSE,
                               !.need_properties = TRUE]
                ELSE c
        ev1 == IF b = 1 THEN <<DictReset>> ELSE <<>>
    IN  CASE b = 0 -> Out(c, LZMA_STREAM_END, 1, <<>>)
          [] b \in {1, 2} ->
              IF c1.need_dictionary_reset
                THEN Out(c1, LZMA_DATA_ERROR, 1, ev1)
                ELSE Out([c1 EXCEPT !.sequence = "SEQ_COMPRESSED_0",
                                    !.next_sequence = "SEQ_COPY"],
                         BREAK, 1, ev1)
          [] OTHER -> Out(c, LZMA_DATA_ERROR, 1, <<>>)

\* Mutant of ControlOther: the phase of a raw chunk is set before
\* need_dictionary_reset is looked at.
ControlOther_PhaseBeforeCheck(c, b) ==
    LET c1 == IF b = 1 THEN [c EXCEPT !.need_dictionary_reset = FALSE] ELSE c
        ev1 == IF b = 1 THEN <<DictReset>> ELSE <<>>
        c2 == [c1 EXCEPT !.sequence = "SEQ_COMPRESSED_0"]
    IN  CASE b = 0 -> Out(c, LZMA_STREAM_END, 1, <<>>)
          [] b \in {1, 2} ->
              IF c1.need_dictionary_reset
                THEN Out(c2, LZMA_DATA_ERROR, 1, ev1)
                ELSE Out([c2 EXCEPT !.next_sequence = "SEQ_COPY"],
                         BREAK, 1, ev1)
          [] OTHER -> Out(c, LZMA_DATA_ERROR, 1, <<>>)

\* Mutant of ControlOther: a raw chunk leaves next_sequence as it was.
ControlOther_KeepNextSequence(c, b) ==
    LET c1 == IF b = 1 THEN [c EXCEPT !.need_dictionary_reset = FALSE] ELSE c
        ev1 == IF b = 1 THEN <<DictReset>> ELSE <<>>
    IN  CASE b = 0 -> Out(c, LZMA_STREAM_END, 1, <<>>)
          [] b \in {1, 2} ->
              IF c1.need_dictionary_reset
                THEN Out(c1, LZMA_DATA_ERROR, 1, ev1)
                ELSE Out([c1 EXCEPT !.sequence = "SEQ_COMPRESSED_0"],
                         BREAK, 1, ev1)
          [] OTHER -> Out(c, LZMA_DATA_ERROR, 1, <<>>)

\* SEQ_CONTROL, control byte with bit 7 clear.
ControlOther(c, b) ==
    LET c1 == IF b = 1 THEN [c EXCEPT !.need_dictionary_reset = FALSE] ELSE c
        ev1 == IF b = 1 THEN <<DictReset>> ELSE <<>>
    IN  CASE b = 0 -> Out(c, LZMA_STREAM_END, 1, <<>>)
          [] b \in {1, 2} ->
              IF c1.need_dictionary_reset
                THEN Out(c1, LZMA_DATA_ERROR, 1, ev1)
                ELSE Out([c1 EXCEPT !.sequence = "SEQ_COMPRESSED_0",
                                    !.next_sequence = "SEQ_COPY"],
                         BREAK, 1, ev1)
          [] OTHER -> Out(c, LZMA_DATA_ERROR, 1, <<>>)

SeqControl(c, b) ==
    IF b >= 128 THEN ControlLzma(c, b) ELSE ControlOther(c, b)

SeqUncompressed1(c, b) ==
    Out([c EXCEPT !.uncompressed_size = @ + b * 256,
                  !.sequence = "SEQ_UNCOMPRESSED_2"],
        BREAK, 1, <<>>)

SeqUncompressed2(c, b) ==
    LET size == c.uncompressed_size + b + 1
    IN  Out([c EXCEPT !.uncompressed_size = size,
                      !.sequence = "SEQ_COMPRESSED_0"],
            BREAK, 1, <<SetUncompressed(size)>>)

\* Mutant of SeqCompressed0: the high byte is added to what the counter held.
SeqCompressed0_Accumulate(c, b) ==
    Out([c EXCEPT !.compressed_size = @ + b * 256,
                  !.sequence = "SEQ_COMPRESSED_1"],
        BREAK, 1, <<>>)

SeqCompressed0(c, b) ==
    Out([c EXCEPT !.compressed_size = b * 256,
                  !.sequence = "SEQ_COMPRESSED_1"],
        BREAK, 1, <<>>)

\* Mutant of SeqCompressed1: the size field is taken as the size, not as
\* the size minus one.
SeqCompressed1_NoPlusOne(c, b) ==
    Out([c EXCEPT !.compressed_size = @ + b,
                  !.sequence = c.next_sequence],
        BREAK, 1, <<>>)

SeqCompressed1(c, b) ==
    Out([c EXCEPT !.compressed_size = @ + b + 1,
                  !.sequence = c.next_sequence],
        BREAK, 1, <<>>)

\* Mutant of SeqProperties: the inner decoder is reset before the properties
\* byte is decoded, with the options held so far.
SeqProperties_ResetOldOptions(c, b) ==
    LET d == lzma_lzma_lclppb_decode(b)
    IN  IF d.error
          THEN Out(c, LZMA_DATA_ERROR, 1, <<>>)
          ELSE Out([c EXCEPT !.options = d.options,
                             !.sequence = "SEQ_LZMA"],
                   BREAK, 1, <<LzmaReset(c.options)>>)

SeqProperties(c, b) ==
    LET d == lzma_lzma_lclppb_decode(b)
    IN  IF d.error
          THEN Out(c, LZMA_DATA_ERROR, 1, <<>>)
          ELSE Out([c EXCEPT !.options = d.options,
                             !.sequence = "SEQ_LZMA"],
                   BREAK, 1, <<LzmaReset(d.options)>>)

\* Mutant of SeqLzma: a chunk the inner decoder reports complete is accepted
\* whatever is left of compressed_size.
SeqLzma_NoRemainderCheck(c, in_used, lret) ==
    LET e == <<LzmaCode(in_used, lret)>>
        c1 == [c EXCEPT !.compressed_size = @ - in_used]
    IN  IF in_used > c.compressed_size THEN Out(c, LZMA_DATA_ERROR, in_used, e)
        ELSE IF lret # LZMA_STREAM_END THEN Out(c1, lret, in_used, e)
        ELSE Out([c1 EXCEPT !.sequence = "SEQ_CONTROL"], BREAK, in_used, e)

\* Mutant of SeqLzma: a completed chunk leaves the phase at SEQ_LZMA.
SeqLzma_StaysInLzma(c, in_used, lret) ==
    LET e == <<LzmaCode(in_used, lret)>>
        c1 == [c EXCEPT !.compressed_size = @ - in_used]
    IN  IF in_used > c.compressed_size THEN Out(c, LZMA_DATA_ERROR, in_used, e)
        ELSE IF lret # LZMA_STREAM_END THEN Out(c1, lret, in_used, e)
        ELSE IF c1.compressed_size # 0 THEN Out(c1, LZMA_DATA_ERROR, in_used, e)
        ELSE Out(c1, BREAK, in_used, e)

\* Mutant of SeqLzma: the status of the inner decoder is looked at before
\* the number of bytes it consumed.
SeqLzma_StatusFirst(c, in_used, lret) ==
    LET e == <<LzmaCode(in_used, lret)>>
        c1 == [c EXCEPT !.compressed_size = @ - in_used]
    IN  IF lret # LZMA_STREAM_END THEN Out(c1, lret, in_used, e)
        ELSE IF in_used > c.compressed_size THEN Out(c, LZMA_DATA_ERROR, in_used, e)
        ELSE IF c1.compressed_size # 0 THEN Out(c1, LZMA_DATA_ERROR, in_used, e)
        ELSE Out([c1 EXCEPT !.sequence = "SEQ_CONTROL"], BREAK, in_used, e)

\* SEQ_LZMA: coder->lzma.code consumed in_used bytes and returned lret.
SeqLzma(c, in_used, lret) ==
    LET e == <<LzmaCode(in_used, lret)>>
        c1 == [c EXCEPT !.compressed_size = @ - in_used]
    IN  IF in_used > c.compressed_size THEN Out(c, LZMA_DATA_ERROR, in_used, e)
        ELSE IF lret # LZMA_STREAM_END THEN Out(c1, lret, in_used, e)
        ELSE IF c1.compressed_size # 0 THEN Out(c1, LZMA_DATA_ERROR, in_used, e)
        ELSE Out([c1 EXCEPT !.sequence = "SEQ_CONTROL"], BREAK, in_used, e)

\* Mutant of SeqCopy: the chunk ends when the input of the call is used up.
SeqCopy_DoneWhenInputEnds(c, avail, room) ==
    LET n == dict_write(avail, c.compressed_size, room)
        c1 == [c EXCEPT !.compressed_size = @ - n]
    IN  IF n # avail
          THEN Out(c1, LZMA_OK, n, <<DictWriteEv(n)>>)
          ELSE Out([c1 EXCEPT !.sequence = "SEQ_CONTROL"],
                   BREAK, n, <<DictWriteEv(n)>>)

\* Mutant of SeqCopy: the phase goes back to SEQ_CONTROL after every copy.
SeqCopy_AlwaysDone(c, avail, room) ==
    LET n == dict_write(avail, c.compressed_size, room)
        c1 == [c EXCEPT !.compressed_size = @ - n]
    IN  Out([c1 EXCEPT !.sequence = "SEQ_CONTROL"],
            BREAK, n, <<DictWriteEv(n)>>)

\* Mutant of SeqCopy: the input at hand is the limit handed to dict_write,
\* not compressed_size.
SeqCopy_LimitIsInput(c, avail, room) ==
    LET n == dict_write(avail, avail, room)
        c1 == [c EXCEPT !.compressed_size = @ - n]
    IN  IF c1.compressed_size # 0
          THEN Out(c1, LZMA_OK, n, <<DictWriteEv(n)>>)
          ELSE Out([c1 EXCEPT !.sequence = "SEQ_CONTROL"],
                   BREAK, n, <<DictWriteEv(n)>>)

\* SEQ_COPY: avail input bytes and room bytes of dictionary are at hand;
\* compressed_size is the limit handed to dict_write.
SeqCopy(c, avail, room) ==
    LET n == dict_write(avail, c.compressed_size, room)
        c1 == [c EXCEPT !.compressed_size = @ - n]
    IN  IF c1.compressed_size # 0
          THEN Out(c1, LZMA_OK, n, <<DictWriteEv(n)>>)
          ELSE Out([c1 EXCEPT !.sequence = "SEQ_CONTROL"],
                   BREAK, n, <<DictWriteEv(n)>>)

\* default: the phase is none of the eight.
SeqDefault(c) == Out(c, LZMA_PROG_ERROR, 0, <<>>)

\* while (*in_pos < in_size || coder->sequence == SEQ_LZMA)
LoopCond(c, pos, size) == pos < size \/ c.sequence = "SEQ_LZMA"

\* lz->coder before the first initialisation and after lzma2_decoder_end.
NULL == [sequence |-> "NULL"]

\* Statuses of lzma_lzma_decoder_create: the inner decoder is set up, or
\* its allocation fails.
CreateRets == {LZMA_OK, LZMA_MEM_ERROR}

\* lzma2_decoder_init(lz, allocator, options, dict_size): lz_coder is
\* lz->coder at the call, mem what a new allocation holds, alloc_ok whether
\* lzma_alloc succeeds, created the status of lzma_lzma_decoder_create.
\* mem and alloc_ok matter only where lz_coder is NULL.  The three fields
\* are written before lzma_lzma_decoder_create is called, whatever its status.
lzma2_decoder_init(lz_coder, mem, alloc_ok, created) ==
    IF lz_coder = NULL /\ ~alloc_ok
      THEN [coder |-> NULL, ret |-> LZMA_MEM_ERROR]
      ELSE [coder |-> [(IF lz_coder = NULL THEN mem ELSE lz_coder)
                         EXCEPT !.sequence = "SEQ_CONTROL",
                                !.need_properties = TRUE,
                                !.need_dictionary_reset = TRUE],
            ret |-> created]

(***************************************************************************)
(* The session as a state machine: a call of lzma2_decode is Call, then    *)
(* one action per loop iteration, until the call returns.                  *)
(***************************************************************************)

\* Values the fields that lzma2_decoder_init leaves alone may hold: those of
\* a newly allocated coder, whose memory is indeterminate, or what an earlier
\* session left.
InitSequences == Sequence \cup {SEQ_GARBAGE}
InitSizes == {0, 1, 70000}
InitOptions == {OPT_GARBAGE, 0}

\* What the memory of a coder may hold when lzma2_decoder_init is called: a
\* new allocation, or a coder in the state any earlier session left it in.
Memory ==
    [sequence : InitSequences,
     next_sequence : InitSequences,
     uncompressed_size : InitSizes,
     compressed_size : InitSizes,
     need_properties : BOOLEAN,
     need_dictionary_reset : BOOLEAN,
     options : InitOptions]

\* The memory lines 252-254 write to: the new allocation where lz->coder is
\* NULL, the existing coder otherwise.
Allocated(lz_coder) == IF lz_coder = NULL THEN Memory ELSE {lz_coder}

\* The coders a session starts with: lzma2_decoder_init has returned LZMA_OK,
\* on a new allocation or on an existing coder.
NewCoders ==
    {o.coder : o \in {x \in UNION {{lzma2_decoder_init(NULL, m, TRUE, LZMA_OK),
                                      lzma2_decoder_init(m, m, TRUE, LZMA_OK)} :
                                       m \in Memory} :
                         x.ret = LZMA_OK}}

\* No coder: the specification at hand keeps none in the variable coder.
NoCoder == [sequence |-> "none"]

NoHist == [reset_ctrl |-> FALSE,    \* a control byte 0x01 or 0xE0..0xFF was read
           props_ctrl |-> FALSE,    \* a control byte 0xC0..0xFF was read and accepted
           dict_resets |-> 0,       \* dict_reset calls
           props_read |-> FALSE,    \* a properties byte was decoded without error
           lzma_coded |-> FALSE,    \* coder->lzma.code was called
           chunk_resets |-> 0,      \* coder->lzma.reset calls since the last control byte
           chunk_sets |-> 0,        \* coder->lzma.set_uncompressed calls since the last control byte
           chunk_coded |-> FALSE,   \* coder->lzma.code was called since the last control byte
           props_byte |-> -1]       \* the last properties byte decoded without error
NoLast == [seq |-> "none", byte |-> -1, used |-> 0]

IdleProps == [payload |-> <<>>, alloc |-> TRUE]
IdlePropsOut == [ret |-> "none", dictionary_size |-> [hi |-> 0, lo |-> 0],
                 preset_dictionary |-> "unset", preset_dictionary_size |-> 0]
IdleStream == [input |-> <<>>, need |-> 0, final |-> LZMA_OK]
IdleRs == [coder |-> NoCoder, init |-> "none", pos |-> 0, ret |-> "none",
           log |-> <<>>, taken |-> 0, overrun |-> FALSE]

Count(e, op) == Cardinality({i \in 1..Len(e) : e[i].op = op})

HistAfter(h, seq, b, o) ==
    LET h0 == IF seq = "SEQ_CONTROL"
                THEN [h EXCEPT !.chunk_resets = 0, !.chunk_sets = 0,
                               !.chunk_coded = FALSE]
                ELSE h
    IN  [h0 EXCEPT
           !.reset_ctrl = @ \/ (seq = "SEQ_CONTROL" /\ (b = 1 \/ b >= 224)),
           !.props_ctrl = @ \/ (seq = "SEQ_CONTROL" /\ b >= 192 /\ o.ret = BREAK),
           !.dict_resets = @ + Count(o.ev, "dict_reset"),
           !.props_read = @ \/ (seq = "SEQ_PROPERTIES" /\ o.ret = BREAK),
           !.lzma_coded = @ \/ Count(o.ev, "lzma_code") > 0,
           !.chunk_resets = @ + Count(o.ev, "lzma_reset"),
           !.chunk_sets = @ + Count(o.ev, "set_uncompressed"),
           !.chunk_coded = @ \/ Count(o.ev, "lzma_code") > 0,
           !.props_byte = IF seq = "SEQ_PROPERTIES" /\ o.ret = BREAK THEN b ELSE @]

\* The state after a loop iteration in phase seq with outcome o; b is the
\* header byte it read (-1 in a chunk body), room the dictionary room left.
Apply(o, seq, b, room) ==
    /\ coder' = o.coder
    /\ in_pos' = in_pos + o.used
    /\ dict_avail' = room
    /\ ev' = o.ev
    /\ last' = [seq |-> seq, byte |-> b, used |-> o.used]
    /\ ret' = IF o.ret = BREAK THEN "none" ELSE o.ret
    /\ pc' = CASE o.ret = BREAK -> "loop"
               [] o.ret = LZMA_OK -> "idle"
               [] OTHER -> "done"
    /\ hdr' = CASE seq = "SEQ_CONTROL" -> <<b>>
                [] seq \in {"SEQ_LZMA", "SEQ_COPY"} -> hdr
                [] OTHER -> Append(hdr, b)
    /\ body' = CASE seq \in {"SEQ_LZMA", "SEQ_COPY"} -> body + o.used
                 [] seq = "SEQ_CONTROL" -> 0
                 [] OTHER -> body
    /\ hist' = HistAfter(hist, seq, b, o)
    /\ UNCHANGED <<in_size, props, props_out, stream, rs, twin>>

Running == pc = "loop" /\ LoopCond(coder, in_pos, in_size)

Init ==
    /\ coder \in NewCoders
    /\ pc = "idle"
    /\ in_pos = 0 /\ in_size = 0 /\ dict_avail = 0
    /\ ret = "none"
    /\ last = NoLast
    /\ ev = <<>>
    /\ hdr = <<>>
    /\ body = 0
    /\ hist = NoHist
    /\ props = IdleProps /\ props_out = IdlePropsOut
    /\ stream = IdleStream /\ rs = IdleRs /\ twin = IdleRs

\* The caller invokes lzma2_decode with n bytes of input and room d in the
\* dictionary.
Call ==
    /\ pc = "idle"
    /\ \E n \in 0..MaxPiece, d \in 0..MaxDict :
         /\ in_pos + n <= MaxFed
         /\ in_size' = in_pos + n /\ dict_avail' = d
    /\ pc' = "loop"
    /\ ret' = "none"
    /\ UNCHANGED <<coder, in_pos, last, ev, hdr, body, hist, props,
                   props_out, stream, rs, twin>>

CaseControl ==
    /\ Running /\ coder.sequence = "SEQ_CONTROL"
    /\ \E b \in ControlBytes :
         Apply(SeqControl(coder, b), "SEQ_CONTROL", b, dict_avail)

CaseUncompressed1 ==
    /\ Running /\ coder.sequence = "SEQ_UNCOMPRESSED_1"
    /\ \E b \in UncompressedBytes :
         Apply(SeqUncompressed1(coder, b), "SEQ_UNCOMPRESSED_1", b, dict_avail)

CaseUncompressed2 ==
    /\ Running /\ coder.sequence = "SEQ_UNCOMPRESSED_2"
    /\ \E b \in UncompressedBytes :
         Apply(SeqUncompressed2(coder, b), "SEQ_UNCOMPRESSED_2", b, dict_avail)

CaseCompressed0 ==
    /\ Running /\ coder.sequence = "SEQ_COMPRESSED_0"
    /\ \E b \in SizeBytes :
         Apply(SeqCompressed0(coder, b), "SEQ_COMPRESSED_0", b, dict_avail)

CaseCompressed1 ==
    /\ Running /\ coder.sequence = "SEQ_COMPRESSED_1"
    /\ \E b \in SizeBytes :
         Apply(SeqCompressed1(coder, b), "SEQ_COMPRESSED_1", b, dict_avail)

CaseProperties ==
    /\ Running /\ coder.sequence = "SEQ_PROPERTIES"
    /\ \E b \in PropBytes :
         Apply(SeqProperties(coder, b), "SEQ_PROPERTIES", b, dict_avail)

\* The inner decoder consumes any part of the input at hand, fills any part
\* of the dictionary room and returns any of its statuses.
CaseLzma ==
    /\ Running /\ coder.sequence = "SEQ_LZMA"
    /\ \E in_used \in 0..(in_size - in_pos), room \in 0..dict_avail,
          lret \in LzmaRets :
         Apply(SeqLzma(coder, in_used, lret), "SEQ_LZMA", -1, room)

CaseCopy ==
    /\ Running /\ coder.sequence = "SEQ_COPY"
    /\ LET o == SeqCopy(coder, in_size - in_pos, dict_avail)
       IN  Apply(o, "SEQ_COPY", -1, dict_avail - o.used)

\* The loop condition is false: return LZMA_OK.
LoopExit ==
    /\ pc = "loop" /\ ~LoopCond(coder, in_pos, in_size)
    /\ pc' = "idle"
    /\ ret' = LZMA_OK
    /\ UNCHANGED <<coder, in_pos, in_size, dict_avail, last, ev, hdr, body,
                   hist, props, props_out, stream, rs, twin>>

Next ==
    \/ Call
    \/ CaseControl
    \/ CaseUncompressed1
    \/ CaseUncompressed2
    \/ CaseCompressed0
    \/ CaseCompressed1
    \/ CaseProperties
    \/ CaseLzma
    \/ CaseCopy
    \/ LoopExit

Spec == Init /\ [][Next]_vars

(***************************************************************************)
(* Properties of the chunk framing, checked under Spec.                    *)
(***************************************************************************)

\* A call has returned.
Returned == pc \in {"idle", "done"} /\ ret # "none"

\* The control byte of the current chunk starts an LZMA chunk / a raw chunk.
LzmaChunk == Len(hdr) >= 1 /\ hdr[1] >= 128
RawChunk == Len(hdr) >= 1 /\ hdr[1] \in {1, 2}

\* Number of body bytes the header of the current chunk declares: the two
\* bytes of the compressed size field, big endian, plus one.
Declared ==
    CASE LzmaChunk /\ Len(hdr) >= 5 -> hdr[4] * 256 + hdr[5] + 1
      [] RawChunk /\ Len(hdr) >= 3 -> hdr[2] * 256 + hdr[3] + 1
      [] OTHER -> -1

\* The next loop iteration reads a control byte.
AtControl == Running /\ coder.sequence = "SEQ_CONTROL"

\* C2: in a session where no control byte 0x01 and no control byte of reset
\* level 3 has been read, a control byte 0x02 or of reset level 0, 1 or 2
\* makes the call return LZMA_DATA_ERROR; no chunk body is processed before
\* the first dictionary reset.
C2_ResetOrdering ==
    /\ (/\ last.seq = "SEQ_CONTROL"
        /\ last.byte \in {2} \cup 128..223
        /\ ~hist.reset_ctrl)
         => pc = "done" /\ ret = LZMA_DATA_ERROR
    /\ (AtControl /\ ~hist.reset_ctrl)
         => \A b \in {2} \cup 128..223 :
               SeqControl(coder, b).ret = LZMA_DATA_ERROR
    /\ hist.dict_resets = 0
         => /\ coder.sequence \notin {"SEQ_LZMA", "SEQ_COPY"}
            /\ body = 0 /\ ~hist.lzma_coded

C2_Witness ==
    /\ last.seq = "SEQ_CONTROL" /\ last.byte \in {2} \cup 128..223
    /\ ~hist.reset_ctrl /\ ret = LZMA_DATA_ERROR

\* C3: as long as no control byte of reset level 2 or 3 has been accepted, a
\* control byte of reset level 0 or 1 makes the call return LZMA_DATA_ERROR,
\* whatever raw chunks and dictionary resets came before; the inner decoder
\* never decodes before a properties byte has been decoded.
C3_PropertiesOrdering ==
    /\ (/\ last.seq = "SEQ_CONTROL"
        /\ last.byte \in 128..191
        /\ ~hist.props_ctrl)
         => pc = "done" /\ ret = LZMA_DATA_ERROR
    /\ (AtControl /\ ~hist.props_ctrl)
         => \A b \in 128..191 : SeqControl(coder, b).ret = LZMA_DATA_ERROR
    /\ hist.lzma_coded => hist.props_read

\* A level 0 or 1 control byte rejected after a raw chunk reset the dictionary.
C3_Witness ==
    /\ last.seq = "SEQ_CONTROL" /\ last.byte \in 128..191
    /\ hist.dict_resets > 0 /\ ~hist.props_ctrl
    /\ ret = LZMA_DATA_ERROR

\* Byte accounting of an LZMA chunk, in every state.
C4_State ==
    /\ (last.seq = "SEQ_LZMA" /\ coder.sequence = "SEQ_CONTROL")
         => body = Declared
    /\ (last.seq = "SEQ_LZMA" /\ body > Declared)
         => pc = "done" /\ ret = LZMA_DATA_ERROR
    /\ (last.seq = "SEQ_LZMA" /\ ev[1].b = LZMA_STREAM_END /\ body # Declared)
         => pc = "done" /\ ret = LZMA_DATA_ERROR
    /\ coder.sequence = "SEQ_LZMA" => coder.compressed_size >= 0

\* Byte accounting of an LZMA chunk, in every step.
C4_Step ==
    /\ (Running /\ coder.sequence = "SEQ_LZMA"
          /\ in_pos' - in_pos > coder.compressed_size)
         => pc' = "done" /\ ret' = LZMA_DATA_ERROR
    /\ (coder.sequence = "SEQ_LZMA" /\ coder'.sequence = "SEQ_LZMA")
         => /\ coder'.compressed_size <= coder.compressed_size
            /\ coder'.compressed_size >= 0

\* C4: a chunk run by the inner decoder completes only when the bytes the
\* inner decoder consumed for it add up to the declared size; consuming more
\* than compressed_size in a call, or reporting the chunk complete with
\* compressed_size not zero, makes the call return LZMA_DATA_ERROR;
\* compressed_size never increases and never drops below zero in SEQ_LZMA.
C4_Accounting == []C4_State /\ [][C4_Step]_vars

\* A two-byte LZMA chunk completed.
C4_Witness ==
    /\ last.seq = "SEQ_LZMA" /\ coder.sequence = "SEQ_CONTROL"
    /\ Declared = 2 /\ body = 2

\* The current chunk is in its body, or was when the last iteration ran.
BodyEntered ==
    \/ coder.sequence \in {"SEQ_LZMA", "SEQ_COPY"}
    \/ last.seq \in {"SEQ_LZMA", "SEQ_COPY"}

\* Body bytes of the current chunk the caller has supplied so far: those
\* consumed and those left in the buffer of the last call.
Supplied == body + (in_size - in_pos)

Truncated == BodyEntered /\ Supplied < Declared

\* C5 as claimed: while fewer body bytes than declared have been supplied,
\* every call returns LZMA_OK and the phase stays SEQ_COPY or SEQ_LZMA.
C5_AlwaysContinue ==
    Truncated =>
        /\ Returned => ret = LZMA_OK
        /\ coder.sequence \in {"SEQ_LZMA", "SEQ_COPY"}

\* C5, amended: while fewer body bytes than declared have been supplied, the
\* phase stays SEQ_COPY (raw chunk) or SEQ_LZMA (LZMA chunk) and no call
\* returns LZMA_STREAM_END; a raw chunk makes every call return LZMA_OK; an
\* LZMA chunk makes a call return LZMA_OK, or LZMA_DATA_ERROR when the inner
\* decoder reports the chunk complete, or the inner decoder's own status.
C5_Truncated ==
    Truncated =>
        /\ coder.sequence = (IF RawChunk THEN "SEQ_COPY" ELSE "SEQ_LZMA")
        /\ ret # LZMA_STREAM_END
        /\ (Returned /\ RawChunk) => ret = LZMA_OK
        /\ (Returned /\ LzmaChunk /\ ret # LZMA_OK) =>
              /\ last.seq = "SEQ_LZMA"
              /\ \/ ev[1].b = LZMA_STREAM_END /\ ret = LZMA_DATA_ERROR
                 \/ ev[1].b # LZMA_STREAM_END /\ ret = ev[1].b

\* The inner decoder reported a truncated chunk complete.
C5_Witness ==
    /\ Truncated /\ Returned /\ LzmaChunk /\ body > 0
    /\ ev[1].b = LZMA_STREAM_END /\ ret = LZMA_DATA_ERROR

\* Progress of a raw chunk, in every state.
C6_State ==
    last.seq = "SEQ_COPY" =>
        /\ ev = <<DictWriteEv(last.used)>>
        /\ body <= Declared
        /\ coder.compressed_size = Declared - body
        /\ coder.sequence = "SEQ_CONTROL" <=> body = Declared
        /\ body < Declared =>
              /\ coder.sequence = "SEQ_COPY"
              /\ Returned => ret = LZMA_OK

\* One copy of a raw chunk: n bytes are copied, the number the one call of
\* dict_write reports; they are what is left of the declared bytes at most,
\* also where more input is at hand and the dictionary has room for more.
C6_Step ==
    (Running /\ coder.sequence = "SEQ_COPY") =>
        LET n == in_pos' - in_pos
        IN  /\ ev' = <<DictWriteEv(n)>>
            /\ n <= in_size - in_pos
            /\ n <= coder.compressed_size
            /\ n <= Declared - body
            /\ n <= dict_avail /\ dict_avail' = dict_avail - n
            /\ coder'.compressed_size = coder.compressed_size - n
            /\ body' = body + n
            /\ coder'.sequence \in {"SEQ_COPY", "SEQ_CONTROL"}

C7_EndMarker ==
    /\ (last.seq = "SEQ_CONTROL" /\ last.byte = 0)
         => /\ pc = "done" /\ ret = LZMA_STREAM_END
            /\ last.used = 1 /\ ev = <<>>
    /\ ret = LZMA_STREAM_END
         => last.seq = "SEQ_CONTROL" /\ last.byte = 0

\* The end marker as the first byte of a session.
C7_Witness ==
    /\ ret = LZMA_STREAM_END /\ in_pos = 1
    /\ coder.need_properties /\ coder.need_dictionary_reset

\* C8: a control byte in 0x03..0x7F makes the call return LZMA_DATA_ERROR,
\* whatever the flags, with no call on the dictionary or the inner decoder.
C8_InvalidControl ==
    /\ (last.seq = "SEQ_CONTROL" /\ last.byte \in 3..127)
         => /\ pc = "done" /\ ret = LZMA_DATA_ERROR
            /\ last.used = 1 /\ ev = <<>>
    /\ AtControl
         => \A b \in 3..127 :
               /\ SeqControl(coder, b).ret = LZMA_DATA_ERROR
               /\ SeqControl(coder, b).ev = <<>>

\* An invalid control byte after a complete LZMA chunk.
C8_Witness ==
    /\ last.seq = "SEQ_CONTROL" /\ last.byte \in 3..127
    /\ ~coder.need_properties /\ ~coder.need_dictionary_reset
    /\ ret = LZMA_DATA_ERROR

\* C10: the size handed to set_uncompressed is
\* ((c & 0x1F) << 16) + (u1 << 8) + u2 + 1, within 1..2^21; compressed_size
\* on leaving SEQ_COMPRESSED_1 is (s1 << 8) + s2 + 1, within 1..2^16, for LZMA
\* and raw chunks alike, whatever the counters held before.
C10_SizeFields ==
    /\ last.seq = "SEQ_UNCOMPRESSED_2" =>
          LET n == (hdr[1] % 32) * 65536 + hdr[2] * 256 + hdr[3] + 1
          IN  /\ ev = <<SetUncompressed(n)>>
              /\ coder.uncompressed_size = n
              /\ n \in 1..2097152
    /\ last.seq = "SEQ_COMPRESSED_1" =>
          /\ Len(hdr) = (IF LzmaChunk THEN 5 ELSE 3)
          /\ coder.compressed_size = hdr[Len(hdr) - 1] * 256 + hdr[Len(hdr)] + 1
          /\ coder.compressed_size \in 1..65536
    /\ (Running /\ coder.sequence = "SEQ_UNCOMPRESSED_2") =>
          \A b \in 0..255 :
             SeqUncompressed2(coder, b).ev =
                <<SetUncompressed((hdr[1] % 32) * 65536 + hdr[2] * 256 + b + 1)>>
    /\ (Running /\ coder.sequence = "SEQ_COMPRESSED_1") =>
          \A b \in 0..255 :
             SeqCompressed1(coder, b).coder.compressed_size
                = hdr[Len(hdr)] * 256 + b + 1

\* The largest sizes, in a chunk that follows an earlier LZMA chunk.
C10_Witness ==
    /\ last.seq = "SEQ_COMPRESSED_1" /\ hist.props_read
    /\ hdr = <<255, 255, 255, 255, 255>>
    /\ coder.uncompressed_size = 2097152
    /\ coder.compressed_size = 65536

\* The phases of the header of an LZMA chunk after its control byte.
HeaderPhases == {"SEQ_UNCOMPRESSED_1", "SEQ_UNCOMPRESSED_2",
                 "SEQ_COMPRESSED_0", "SEQ_COMPRESSED_1", "SEQ_PROPERTIES"}

\* C11 as claimed: need_properties is false only if a properties byte has
\* been decoded without error earlier in the session.
C11_OnlyAfterDecoded == ~coder.need_properties => hist.props_read

\* C11, amended: need_properties is false only if a control byte of reset
\* level 2 or 3 has been accepted earlier in the session, and accepting one
\* clears it, before the properties byte of that chunk is read; while it is
\* false and no properties byte has been decoded yet, the decoder is in the
\* header of that first chunk of level 2 or 3, whose properties byte is still
\* to come or has just been rejected.
C11_ClearedByControl ==
    /\ ~coder.need_properties => hist.props_ctrl
    /\ (last.seq = "SEQ_CONTROL" /\ last.byte >= 192 /\ pc # "done")
         => ~coder.need_properties
    /\ (~coder.need_properties /\ ~hist.props_read)
         => /\ LzmaChunk /\ hdr[1] >= 192
            /\ coder.sequence \in HeaderPhases
            /\ ~hist.lzma_coded
    /\ (AtControl /\ coder.need_properties)
         => \A b \in 0..255 :
               ~SeqControl(coder, b).coder.need_properties
                  <=> (b >= 192 /\ SeqControl(coder, b).ret = BREAK)

\* need_properties is false and the properties byte has not been read: the
\* call ran out of input in the header of a level 2 chunk after a raw chunk.
C11_Witness ==
    /\ ~coder.need_properties /\ ~hist.props_read
    /\ hdr = <<192, 0, 0>> /\ pc = "idle" /\ ret = LZMA_OK
    /\ hist.dict_resets = 1

\* Reset level of the control byte of the current LZMA chunk.
Level == (hdr[1] \div 32) % 4

\* C12: when the inner decoder decodes an LZMA chunk, coder->lzma.reset has
\* been called for that chunk once if the reset level is 1, 2 or 3 and not at
\* all if it is 0, and set_uncompressed once, all before the first decode
\* call; for level 2 and 3 the reset is made in SEQ_PROPERTIES with the
\* options decoded from the properties byte of the chunk, for level 1 in
\* SEQ_CONTROL with the options of the last properties byte decoded before;
\* a raw chunk calls neither.
C12_InnerReset ==
    /\ (LzmaChunk /\ (coder.sequence = "SEQ_LZMA" \/ last.seq = "SEQ_LZMA"))
         => /\ hist.chunk_sets = 1
            /\ hist.chunk_resets = (IF Level = 0 THEN 0 ELSE 1)
    /\ hist.chunk_coded
         => /\ last.seq = "SEQ_LZMA"
            /\ Count(ev, "lzma_reset") = 0 /\ Count(ev, "set_uncompressed") = 0
    /\ (last.seq = "SEQ_CONTROL" /\ LzmaChunk /\ pc # "done")
         => /\ Level = 0 => ev = <<>>
            /\ Level = 1 => hist.props_read /\ ev = <<LzmaReset(hist.props_byte)>>
            /\ Level = 2 => ev = <<>>
            /\ Level = 3 => ev = <<DictReset>>
    /\ last.seq \in HeaderPhases \ {"SEQ_PROPERTIES"}
         => Count(ev, "lzma_reset") = 0
    /\ last.seq = "SEQ_UNCOMPRESSED_2" => Count(ev, "set_uncompressed") = 1
    /\ last.seq = "SEQ_PROPERTIES"
         => /\ LzmaChunk /\ Level >= 2 /\ Len(hdr) = 6
            /\ ev = (IF pc = "done" THEN <<>> ELSE <<LzmaReset(hdr[6])>>)
    /\ RawChunk
         => /\ hist.chunk_sets = 0 /\ hist.chunk_resets = 0 /\ ~hist.chunk_coded
            /\ Count(ev, "lzma_reset") = 0 /\ Count(ev, "set_uncompressed") = 0

\* A chunk of reset level 1 is decoded after a chunk of level 3 whose
\* properties byte was 40: its one reset used the options of that byte.
C12_Witness ==
    /\ last.seq = "SEQ_LZMA" /\ hdr[1] = 160
    /\ hist.chunk_resets = 1 /\ hist.chunk_sets = 1
    /\ hist.props_byte = 40 /\ coder.options = 40

\* The phase that follows the compressed size field of the current chunk.
AfterSizes ==
    CASE LzmaChunk /\ Level >= 2 -> "SEQ_PROPERTIES"
      [] LzmaChunk /\ Level <= 1 -> "SEQ_LZMA"
      [] RawChunk -> "SEQ_COPY"
      [] OTHER -> "none"

\* Number of header bytes of the current chunk.
HeaderLen ==
    CASE LzmaChunk /\ Level >= 2 -> 6
      [] LzmaChunk /\ Level <= 1 -> 5
      [] RawChunk -> 3
      [] OTHER -> -1

\* C13: after SEQ_COMPRESSED_1 the phase is SEQ_PROPERTIES exactly for an
\* LZMA chunk of reset level 2 or 3, SEQ_LZMA exactly for one of level 0 or
\* 1, SEQ_COPY exactly for a raw chunk; each header phase consumes one byte,
\* so the body starts after 6, 5 and 3 header bytes; a raw chunk never passes
\* through SEQ_UNCOMPRESSED_1, SEQ_UNCOMPRESSED_2 or SEQ_PROPERTIES.
C13_HeaderRouting ==
    /\ last.seq = "SEQ_COMPRESSED_1"
         => /\ coder.sequence = AfterSizes
            /\ Len(hdr) = (IF RawChunk THEN 3 ELSE 5)
    /\ (Running /\ coder.sequence = "SEQ_COMPRESSED_1")
         => \A b \in 0..255 :
               SeqCompressed1(coder, b).coder.sequence = AfterSizes
    /\ last.seq \in {"SEQ_CONTROL"} \cup HeaderPhases => last.used = 1
    /\ BodyEntered => Len(hdr) = HeaderLen
    /\ (Running /\ coder.sequence \in {"SEQ_LZMA", "SEQ_COPY"} /\ body = 0)
         => last.seq \in {coder.sequence,
                          IF LzmaChunk /\ Level >= 2
                            THEN "SEQ_PROPERTIES" ELSE "SEQ_COMPRESSED_1"}
    /\ RawChunk
         => /\ coder.sequence \notin
                  {"SEQ_UNCOMPRESSED_1", "SEQ_UNCOMPRESSED_2", "SEQ_PROPERTIES"}
            /\ last.seq \notin
                  {"SEQ_UNCOMPRESSED_1", "SEQ_UNCOMPRESSED_2", "SEQ_PROPERTIES"}

\* A chunk of reset level 0 goes from its fifth header byte to SEQ_LZMA,
\* after a chunk that went through SEQ_PROPERTIES.
C13_Witness ==
    /\ last.seq = "SEQ_COMPRESSED_1" /\ hdr[1] = 128 /\ Len(hdr) = 5
    /\ coder.sequence = "SEQ_LZMA" /\ coder.next_sequence = "SEQ_LZMA"

\* Statuses of the inner decoder other than LZMA_STREAM_END.
Unfinished == {LZMA_OK, LZMA_DATA_ERROR, LZMA_MEM_ERROR, LZMA_OPTIONS_ERROR,
               LZMA_PROG_ERROR}

\* What C14 says of an iteration in SEQ_LZMA that starts with coder c, in
\* which the inner decoder consumes used bytes and returns s, and which ends
\* with coder c2 and status r ("none": the loop goes on).
Propagated(c, used, s, c2, r) ==
    IF used > c.compressed_size
      THEN r = LZMA_DATA_ERROR
      ELSE s # LZMA_STREAM_END
             => /\ r = s
                /\ c2.sequence = "SEQ_LZMA"
                /\ c2.compressed_size = c.compressed_size - used

\* Inner status propagation, for every outcome of the inner decoder.
C14_State ==
    (Running /\ coder.sequence = "SEQ_LZMA")
        => \A used \in 0..(MaxPiece + 1), s \in Unfinished \cup {LZMA_STREAM_END} :
              LET o == SeqLzma(coder, used, s)
              IN  Propagated(coder, used, s, o.coder, o.ret)

\* Inner status propagation, in every step.
C14_Step ==
    (Running /\ coder.sequence = "SEQ_LZMA")
        => Propagated(coder, in_pos' - in_pos, ev'[1].b, coder', ret')

\* C14: in SEQ_LZMA, when the inner decoder returns a status s other than
\* LZMA_STREAM_END having consumed no more than compressed_size bytes, the
\* call returns s, the phase stays SEQ_LZMA and compressed_size is lowered by
\* the bytes consumed; when it consumed more than compressed_size the call
\* returns LZMA_DATA_ERROR whatever s is.
C14_InnerStatus == []C14_State /\ [][C14_Step]_vars

\* The inner decoder returned LZMA_OK having consumed two bytes of a chunk
\* that declares one: the call returned LZMA_DATA_ERROR.
C14_Witness ==
    /\ last.seq = "SEQ_LZMA" /\ Declared = 1
    /\ ev = <<LzmaCode(2, LZMA_OK)>> /\ ret = LZMA_DATA_ERROR

\* C15: in a session no call of which follows an error, the phase is always
\* one of the eight enumerators, so that the switch never takes its default
\* branch; next_sequence is SEQ_PROPERTIES, SEQ_LZMA or SEQ_COPY whenever
\* SEQ_COMPRESSED_1 reads it; no call returns LZMA_PROG_ERROR.
C15_NoProgError ==
    /\ coder.sequence \in Sequence
    /\ (Running /\ coder.sequence = "SEQ_COMPRESSED_1")
         => /\ coder.next_sequence \in {"SEQ_PROPERTIES", "SEQ_LZMA", "SEQ_COPY"}
            /\ \A b \in 0..255 :
                  SeqCompressed1(coder, b).coder.sequence \in Sequence
    /\ ret # LZMA_PROG_ERROR

\* SEQ_COMPRESSED_1 is about to read next_sequence in the first chunk of a
\* session whose coder was left with the field never written.
C15_Witness ==
    /\ Running /\ coder.sequence = "SEQ_COMPRESSED_1"
    /\ coder.next_sequence = "SEQ_COPY" /\ hdr = <<1, 255>>
    /\ coder.options = OPT_GARBAGE /\ coder.uncompressed_size = 70000

\* One loop iteration makes progress, and so does the exit of the loop.
C16_Step ==
    /\ Running
         => \/ in_pos' > in_pos
            \/ pc' # "loop"
            \/ coder.sequence = "SEQ_LZMA" /\ coder'.sequence = "SEQ_CONTROL"
    /\ (Running /\ coder.sequence = "SEQ_LZMA" /\ in_pos = in_size)
         => /\ Count(ev', "lzma_code") = 1
            /\ \/ pc' # "loop"
               \/ /\ coder'.sequence = "SEQ_CONTROL"
                  /\ coder'.compressed_size = 0
                  /\ ~LoopCond(coder', in_pos', in_size')
    /\ (pc = "loop" /\ ~LoopCond(coder, in_pos, in_size))
         => pc' = "idle" /\ ret' = LZMA_OK

\* C16: every iteration of the loop of lzma2_decode consumes at least one
\* input byte, or returns, or moves the phase from SEQ_LZMA to SEQ_CONTROL, so
\* that a call makes no more than two iterations per input byte and one
\* more; called in SEQ_LZMA with no input left, it calls the inner decoder
\* once and returns: the status of the iteration, or LZMA_OK through the
\* exit of the loop when the chunk was completed.
C16_Terminates == [][C16_Step]_vars

\* A call in SEQ_LZMA with no input completed the chunk and returned LZMA_OK.
C16_Witness ==
    /\ last.seq = "SEQ_LZMA" /\ last.used = 0
    /\ ev = <<LzmaCode(0, LZMA_STREAM_END)>>
    /\ coder.sequence = "SEQ_CONTROL" /\ in_pos = in_size
    /\ pc = "idle" /\ ret = LZMA_OK

\* The flags and the phase, in every state.
C18_State ==
    /\ ~coder.need_properties => ~coder.need_dictionary_reset
    /\ coder.sequence = "SEQ_COPY" => ~coder.need_dictionary_reset
    /\ coder.sequence = "SEQ_LZMA"
         => ~coder.need_properties /\ ~coder.need_dictionary_reset
    /\ AtControl
         => \A b \in 0..255 :
               LET c2 == SeqControl(coder, b).coder
               IN  /\ c2.need_properties => coder.need_properties
                   /\ c2.need_dictionary_reset => coder.need_dictionary_reset

\* The flags, in every step.
C18_Step ==
    /\ coder'.need_properties => coder.need_properties
    /\ coder'.need_dictionary_reset => coder.need_dictionary_reset

\* C18: within a session need_properties and need_dictionary_reset only go
\* from true to false, a dictionary reset does not set need_properties again;
\* need_properties false implies need_dictionary_reset false; in SEQ_COPY
\* need_dictionary_reset is false and in SEQ_LZMA both flags are.
C18_Flags == []C18_State /\ [][C18_Step]_vars

\* Control byte 0x01 resets the dictionary after a properties byte was
\* decoded: need_properties stays false.
C18_Witness ==
    /\ last.seq = "SEQ_CONTROL" /\ last.byte = 1
    /\ hist.props_read /\ hist.dict_resets = 2
    /\ ~coder.need_properties /\ ~coder.need_dictionary_reset

\* An iteration in SEQ_CONTROL makes the call return LZMA_DATA_ERROR.
Rejects == Running /\ coder.sequence = "SEQ_CONTROL" /\ ret' = LZMA_DATA_ERROR

\* What a rejected control byte does outside the coder: one byte consumed,
\* no call on the dictionary or the inner decoder.
RejectedOutside ==
    /\ in_pos' = in_pos + 1
    /\ ev' = <<>>

\* C20 as claimed: a control byte that makes the call return
\* LZMA_DATA_ERROR is consumed, causes no dictionary reset, dictionary write
\* or inner-decoder reset, and leaves the phase, next_sequence, both flags
\* and both counters as they were.
C20_StateKept ==
    [][Rejects => /\ RejectedOutside
                  /\ coder'.sequence = coder.sequence
                  /\ coder'.next_sequence = coder.next_sequence
                  /\ coder'.need_properties = coder.need_properties
                  /\ coder'.need_dictionary_reset = coder.need_dictionary_reset
                  /\ coder'.uncompressed_size = coder.uncompressed_size
                  /\ coder'.compressed_size = coder.compressed_size]_vars

\* C20, amended: a control byte that makes the call return LZMA_DATA_ERROR
\* is consumed, causes no dictionary reset, dictionary write or inner-decoder
\* reset, and leaves next_sequence, both flags and compressed_size as they
\* were; with bit 7 clear (0x02..0x7F) it leaves the phase and
\* uncompressed_size too; with bit 7 set (reset level 0, 1 or 2) the phase has
\* become SEQ_UNCOMPRESSED_1 and uncompressed_size (c & 0x1F) << 16.
C20_Rejected ==
    [][Rejects => /\ RejectedOutside
                  /\ coder'.next_sequence = coder.next_sequence
                  /\ coder'.need_properties = coder.need_properties
                  /\ coder'.need_dictionary_reset = coder.need_dictionary_reset
                  /\ coder'.compressed_size = coder.compressed_size
                  /\ coder'.options = coder.options
                  /\ last'.byte \in 2..127 \cup 128..223
                  /\ last'.byte < 128
                       => /\ coder'.sequence = "SEQ_CONTROL"
                          /\ coder'.uncompressed_size = coder.uncompressed_size
                  /\ last'.byte >= 128
                       => /\ coder'.sequence = "SEQ_UNCOMPRESSED_1"
                          /\ coder'.uncompressed_size
                                = (last'.byte % 32) * 65536]_vars

\* Control byte 0xA0 (reset level 1) was rejected after a raw chunk: the
\* phase is SEQ_UNCOMPRESSED_1 and uncompressed_size 0.
C20_Witness ==
    /\ last.seq = "SEQ_CONTROL" /\ last.byte = 160 /\ ret = LZMA_DATA_ERROR
    /\ coder.sequence = "SEQ_UNCOMPRESSED_1" /\ coder.uncompressed_size = 0
    /\ coder.next_sequence = "SEQ_COPY" /\ hist.dict_resets = 1

(***************************************************************************)
(* lzma_lzma2_props_decode.                                                *)
(*                                                                         *)
(* A uint32_t is the record [hi, lo] of its two 16-bit halves, so that     *)
(* values up to UINT32_MAX and the wrap-around of << are represented.      *)
(***************************************************************************)
UINT32_MAX == [hi |-> 65535, lo |-> 65535]

\* (uint32_t)x << k, for 0 <= x < 2^15 and 0 <= k < 32.
Shl32(x, k) ==
    IF k >= 16
      THEN [hi |-> (x * 2^(k - 16)) % 65536, lo |-> 0]
      ELSE [hi |-> ((x * 2^k) \div 65536) % 65536, lo |-> (x * 2^k) % 65536]

U32Less(a, b) == a.hi < b.hi \/ (a.hi = b.hi /\ a.lo < b.lo)

PropsError(r) ==
    [ret |-> r, dictionary_size |-> [hi |-> 0, lo |-> 0],
     preset_dictionary |-> "unset", preset_dictionary_size |-> 0]

\* Mutant of lzma_lzma2_props_decode: no special case for props[0] == 40.
lzma_lzma2_props_decode_NoMax(payload, alloc_ok) ==
    IF Len(payload) # 1 THEN PropsError(LZMA_OPTIONS_ERROR)
    ELSE IF payload[1] \div 64 # 0 THEN PropsError(LZMA_OPTIONS_ERROR)
    ELSE IF payload[1] > 40 THEN PropsError(LZMA_OPTIONS_ERROR)
    ELSE IF ~alloc_ok THEN PropsError(LZMA_MEM_ERROR)
    ELSE [ret |-> LZMA_OK,
          dictionary_size |->
              Shl32(2 + (payload[1] % 2), (payload[1] \div 2) + 11),
          preset_dictionary |-> "NULL",
          preset_dictionary_size |-> 0]

\* payload is props[0 .. props_size - 1]; alloc_ok tells whether lzma_alloc
\* returns memory.  props[0] & 0xC0 is (props[0] \div 64) * 64, and
\* 2 | (props[0] & 1) is 2 + props[0] % 2.
lzma_lzma2_props_decode(payload, alloc_ok) ==
    IF Len(payload) # 1 THEN PropsError(LZMA_OPTIONS_ERROR)
    ELSE IF payload[1] \div 64 # 0 THEN PropsError(LZMA_OPTIONS_ERROR)
    ELSE IF payload[1] > 40 THEN PropsError(LZMA_OPTIONS_ERROR)
    ELSE IF ~alloc_ok THEN PropsError(LZMA_MEM_ERROR)
    ELSE [ret |-> LZMA_OK,
          dictionary_size |->
              IF payload[1] = 40
                THEN UINT32_MAX
                ELSE Shl32(2 + (payload[1] % 2), (payload[1] \div 2) + 11),
          preset_dictionary |-> "NULL",
          preset_dictionary_size |-> 0]

\* Payloads handed to lzma_lzma2_props_decode: every single byte, and
\* payloads of the other lengths.
Payloads ==
    {<<b>> : b \in 0..255}
        \cup UNION {[1..n -> {0, 40}] : n \in 0..MaxPropsLen}

\* lzma_lzma2_props_decode takes no coder.
InitProps ==
    /\ coder = NoCoder
    /\ pc = "idle"
    /\ in_pos = 0 /\ in_size = 0 /\ dict_avail = 0
    /\ ret = "none"
    /\ last = NoLast
    /\ ev = <<>>
    /\ hdr = <<>>
    /\ body = 0
    /\ hist = NoHist
    /\ props = IdleProps /\ props_out = IdlePropsOut
    /\ stream = IdleStream /\ rs = IdleRs /\ twin = IdleRs

PropsDecode ==
    /\ \E p \in Payloads, a \in BOOLEAN :
         /\ props' = [payload |-> p, alloc |-> a]
         /\ props_out' = lzma_lzma2_props_decode(p, a)
    /\ UNCHANGED <<coder, pc, in_pos, in_size, dict_avail, ret, last, ev, hdr,
                   body, hist, stream, rs, twin>>

NextProps == PropsDecode

SpecProps == InitProps /\ [][NextProps]_vars

\* C9: a payload whose length is not 1 yields LZMA_OPTIONS_ERROR; a byte b
\* with a 0xC0 bit set or above 40 yields LZMA_OPTIONS_ERROR; b = 40 yields
\* dictionary size 2^32 - 1; b in 0..39 yields (2 | (b & 1)) << (b/2 + 11)
\* without overflow (4096 for b = 0), strictly increasing in b; the preset
\* dictionary is absent.  The size, a multiple of 2048, is compared in units
\* of 2048 bytes.
C9_PropsDecode ==
    /\ props_out.ret # "none" =>
         LET p == props.payload
             b == p[1]
             size == props_out.dictionary_size
         IN  /\ Len(p) # 1 => props_out.ret = LZMA_OPTIONS_ERROR
             /\ (Len(p) = 1 /\ (b \div 64 # 0 \/ b > 40))
                  => props_out.ret = LZMA_OPTIONS_ERROR
             /\ (Len(p) = 1 /\ b <= 40 /\ props.alloc)
                  => /\ props_out.ret = LZMA_OK
                     /\ props_out.preset_dictionary = "NULL"
                     /\ props_out.preset_dictionary_size = 0
                     /\ b = 40 => size.hi = 65535 /\ size.lo = 65535
                     /\ b < 40 =>
                          /\ size.lo % 2048 = 0
                          /\ size.hi * 32 + (size.lo \div 2048)
                               = (2 + (b % 2)) * 2^(b \div 2)
                     /\ b = 0 => size.hi = 0 /\ size.lo = 4096
    /\ \A b \in 0..39 :
         U32Less(lzma_lzma2_props_decode(<<b>>, TRUE).dictionary_size,
                 lzma_lzma2_props_decode(<<b + 1>>, TRUE).dictionary_size)

\* The largest shifted size: byte 39 gives 3 << 30.
C9_Witness ==
    /\ props.payload = <<39>> /\ props.alloc
    /\ props_out.ret = LZMA_OK
    /\ props_out.dictionary_size = [hi |-> 49152, lo |-> 0]

(***************************************************************************)
(* Resumability: one session fed piece by piece, compared with a single    *)
(* call of lzma2_decode on the whole input.                                *)
(*                                                                         *)
(* The inner decoder does not depend on how its input is cut: for every    *)
(* chunk it takes `need` bytes, as they come, and then returns `final`;    *)
(* while it has taken fewer it returns LZMA_OK.  The dictionary has room.  *)
(***************************************************************************)
\* Byte values the input takes where the decoder reads it in phase seq: the
\* end marker, a raw chunk with or without dictionary reset, an invalid
\* control byte, an LZMA chunk of every reset level; a compressed size of 1
\* or 2; a properties byte that is accepted or rejected; zero elsewhere.
ResumeBytes(seq) ==
    CASE seq = "SEQ_CONTROL" -> {0, 1, 2, 3, 128, 160, 192, 224}
      [] seq = "SEQ_COMPRESSED_1" -> {0, 1}
      [] seq = "SEQ_PROPERTIES" -> {0, 255}
      [] OTHER -> {0}

\* coder->lzma.code with avail bytes at hand, after taking `taken` bytes of
\* the chunk.
InnerCode(taken, avail, plan) ==
    LET used == Min(avail, plan.need - taken)
    IN  [used |-> used,
         ret |-> IF taken + used = plan.need THEN plan.final ELSE LZMA_OK]

\* One loop iteration of lzma2_decode on session r, the buffer ending at size.
Switch(r, input, size, plan) ==
    LET c == r.coder
        b == input[r.pos + 1]
    IN  CASE c.sequence = "SEQ_CONTROL" -> SeqControl(c, b)
          [] c.sequence = "SEQ_UNCOMPRESSED_1" -> SeqUncompressed1(c, b)
          [] c.sequence = "SEQ_UNCOMPRESSED_2" -> SeqUncompressed2(c, b)
          [] c.sequence = "SEQ_COMPRESSED_0" -> SeqCompressed0(c, b)
          [] c.sequence = "SEQ_COMPRESSED_1" -> SeqCompressed1(c, b)
          [] c.sequence = "SEQ_PROPERTIES" -> SeqProperties(c, b)
          [] c.sequence = "SEQ_LZMA" ->
                LET i == InnerCode(r.taken, size - r.pos, plan)
                IN  SeqLzma(c, i.used, i.ret)
          [] c.sequence = "SEQ_COPY" ->
                SeqCopy(c, size - r.pos, size - r.pos)
          [] OTHER -> SeqDefault(c)

\* What an iteration adds to the log: the calls it made, the bytes copied to
\* the dictionary and the bytes taken by the inner decoder one by one.
RECURSIVE Logged(_, _, _)
Logged(e, input, pos) ==
    IF e = <<>> THEN <<>>
    ELSE LET h == e[1]
         IN  (CASE h.op = "dict_write" ->
                     [i \in 1..h.a |-> Event("dict_byte", input[pos + i], "")]
                [] h.op = "lzma_code" ->
                     [i \in 1..h.a |-> Event("lzma_byte", input[pos + i], "")]
                [] OTHER -> <<h>>)
             \o Logged(Tail(e), input, pos)

\* lzma2_decode(coder, dict, in, in_pos, in_size): the whole call, on
\* session r with the buffer input[r.pos + 1 .. size].
RECURSIVE lzma2_decode(_, _, _, _)
lzma2_decode(r, input, size, plan) ==
    IF ~LoopCond(r.coder, r.pos, size)
      THEN [r EXCEPT !.ret = LZMA_OK]
      ELSE LET o == Switch(r, input, size, plan)
               r1 == [coder |-> o.coder,
                      init |-> r.init,
                      pos |-> r.pos + o.used,
                      ret |-> o.ret,
                      log |-> r.log \o Logged(o.ev, input, r.pos),
                      taken |-> IF Count(o.ev, "set_uncompressed") > 0
                                  THEN 0
                                  ELSE r.taken + Count(o.ev, "lzma_code") * o.used,
                      overrun |-> /\ r.coder.sequence = "SEQ_LZMA"
                                  /\ o.used > r.coder.compressed_size]
           IN  IF o.ret = BREAK
                 THEN lzma2_decode(r1, input, size, plan)
                 ELSE r1

\* The session on coder c before its first call, lzma2_decoder_init having
\* returned LZMA_OK.
NewSession(c) ==
    [coder |-> c, init |-> LZMA_OK, pos |-> 0, ret |-> "none", log |-> <<>>,
     taken |-> 0, overrun |-> FALSE]

\* The variable coder keeps the coder the session started with.
InitResume ==
    /\ coder \in NewCoders
    /\ pc = "idle"
    /\ in_pos = 0 /\ in_size = 0 /\ dict_avail = 0
    /\ ret = "none"
    /\ last = NoLast
    /\ ev = <<>>
    /\ hdr = <<>>
    /\ body = 0
    /\ hist = NoHist
    /\ props = IdleProps /\ props_out = IdlePropsOut
    /\ stream \in [input : {<<>>}, need : 0..MaxNeed,
                   final : {LZMA_STREAM_END, LZMA_DATA_ERROR}]
    /\ rs = NewSession(coder) /\ twin = IdleRs

\* The pieces of at most n bytes that input may go on with, session r having
\* read input: each byte is drawn from the set of the phase it is read in.
RECURSIVE Pieces(_, _, _, _)
Pieces(r, input, n, plan) ==
    IF n = 0 \/ r.ret \notin {"none", LZMA_OK}
      THEN {<<>>}
      ELSE UNION {{<<b>> \o t :
                     t \in Pieces(lzma2_decode(r, Append(input, b),
                                               Len(input) + 1, plan),
                                  Append(input, b), n - 1, plan)} :
                  b \in ResumeBytes(r.coder.sequence)}

\* The caller hands the next piece of the input to lzma2_decode, as long as
\* the calls return LZMA_OK.
FeedPiece ==
    /\ rs.ret \in {"none", LZMA_OK}
    /\ rs.pos = Len(stream.input)
    /\ \E n \in 0..MaxPiece :
         /\ Len(stream.input) + n <= MaxStream
         /\ \E piece \in Pieces(rs, stream.input, n, stream) :
              LET input == stream.input \o piece
              IN  /\ stream' = [stream EXCEPT !.input = input]
                  /\ rs' = lzma2_decode(rs, input, Len(input), stream)
    /\ UNCHANGED <<coder, pc, in_pos, in_size, dict_avail, ret, last, ev, hdr,
                   body, hist, props, props_out, twin>>

NextResume == FeedPiece

SpecResume == InitResume /\ [][NextResume]_vars

\* The single call on the whole input, on the coder the session started with.
Whole ==
    lzma2_decode(NewSession(coder), stream.input, Len(stream.input), stream)

IsPrefix(a, b) == Len(a) <= Len(b) /\ a = SubSeq(b, 1, Len(a))

\* C1 as claimed: after the pieces, the status, the coder and the calls on
\* the dictionary and the inner decoder are those of the single call.
C1_SameAsWhole ==
    rs.ret # "none" =>
        /\ rs.ret = Whole.ret
        /\ rs.coder = Whole.coder
        /\ rs.log = Whole.log

\* C1, amended: the status is that of the single call; so are the coder and
\* the calls on the dictionary and the inner decoder, unless the call
\* returned LZMA_DATA_ERROR because the inner decoder consumed more than
\* compressed_size: then compressed_size may differ and the inner decoder may
\* have taken fewer bytes than in the single call, and nothing else differs.
C1_Resumable ==
    rs.ret # "none" =>
        /\ rs.ret = Whole.ret
        /\ rs.overrun = Whole.overrun
        /\ ~rs.overrun =>
              /\ rs.coder = Whole.coder
              /\ rs.log = Whole.log
              /\ rs.pos = Whole.pos
        /\ rs.overrun =>
              /\ rs.ret = LZMA_DATA_ERROR
              /\ [rs.coder EXCEPT !.compressed_size = 0]
                   = [Whole.coder EXCEPT !.compressed_size = 0]
              /\ IsPrefix(rs.log, Whole.log)

\* An LZMA chunk of two bytes and the end marker, fed in more than one piece.
C1_Witness ==
    /\ rs.ret = LZMA_STREAM_END
    /\ stream.input = <<224, 0, 0, 0, 1, 0, 0, 0, 0>>
    /\ Len(rs.log) = 5

(***************************************************************************)
(* Re-initialisation: lzma2_decoder_init on a coder an earlier session     *)
(* left behind, or on a new allocation after lzma2_decoder_end, then two   *)
(* sessions fed the same input in the same pieces.  The inner decoder is   *)
(* the one of the resumability section.                                    *)
(***************************************************************************)
TwinBytes == {0, 1, 160, 224}

\* A session that lzma2_decoder_init has not been called on yet.
UNINIT == "uninit"

\* What holds of a coder between two calls of a session, and after its last
\* call: the phase is an enumerator, the flags are cleared in their order,
\* and a phase is entered with the fields written that lead to it.
CoderShape(c) ==
    /\ c.sequence \in Sequence
    /\ c.need_dictionary_reset => c.need_properties
    /\ c.sequence \in {"SEQ_UNCOMPRESSED_1", "SEQ_UNCOMPRESSED_2"}
         => c.uncompressed_size % 256 = 0
    /\ c.sequence = "SEQ_PROPERTIES"
         => /\ ~c.need_properties
            /\ c.next_sequence = "SEQ_PROPERTIES"
            /\ c.uncompressed_size >= 1
            /\ c.compressed_size \in 1..65536
    /\ c.sequence = "SEQ_LZMA"
         => /\ ~c.need_properties
            /\ c.next_sequence \in {"SEQ_PROPERTIES", "SEQ_LZMA"}
            /\ c.uncompressed_size >= 1
            /\ c.compressed_size \in 0..65536
    /\ c.sequence = "SEQ_COPY"
         => /\ ~c.need_dictionary_reset
            /\ c.next_sequence = "SEQ_COPY"
            /\ c.compressed_size \in 1..65536

\* The coders lz->coder may point at when lzma2_decoder_init is called
\* again: an earlier session left them, after any of its calls.
Existing == {c \in Memory : CoderShape(c)}

\* The coder every other one is compared with.
Reference ==
    [sequence |-> "SEQ_LZMA", next_sequence |-> "SEQ_PROPERTIES",
     uncompressed_size |-> 1, compressed_size |-> 1,
     need_properties |-> FALSE, need_dictionary_reset |-> FALSE,
     options |-> 0]

\* A coder that lzma2_decoder_init is going to be called for.
Pending(c) == [NewSession(c) EXCEPT !.init = UNINIT]

InitReinit ==
    /\ coder = NoCoder
    /\ pc = "idle"
    /\ in_pos = 0 /\ in_size = 0 /\ dict_avail = 0
    /\ ret = "none"
    /\ last = NoLast
    /\ ev = <<>>
    /\ hdr = <<>>
    /\ body = 0
    /\ hist = NoHist
    /\ props = IdleProps /\ props_out = IdlePropsOut
    /\ stream = [input |-> <<>>, need |-> 1, final |-> LZMA_STREAM_END]
    /\ rs = Pending(Reference)
    /\ twin \in {Pending(c) : c \in Existing}

\* lzma2_decoder_end: the coder is freed; the next initialisation finds
\* lz->coder NULL.
DecoderEnd ==
    /\ twin.init = UNINIT /\ twin.coder # NULL
    /\ twin' = [twin EXCEPT !.coder = NULL]
    /\ UNCHANGED <<coder, pc, in_pos, in_size, dict_avail, ret, last, ev, hdr,
                   body, hist, props, props_out, stream, rs>>

\* lzma2_decoder_init for both sessions.
Reinit ==
    /\ rs.init = UNINIT
    /\ \E s1 \in CreateRets, s2 \in CreateRets, a \in BOOLEAN,
          m \in Allocated(twin.coder) :
         LET o1 == lzma2_decoder_init(rs.coder, rs.coder, TRUE, s1)
             o2 == lzma2_decoder_init(twin.coder, m, a, s2)
         IN  /\ twin.coder # NULL => a
             /\ rs' = [rs EXCEPT !.coder = o1.coder, !.init = o1.ret]
             /\ twin' = [twin EXCEPT !.coder = o2.coder, !.init = o2.ret]
    /\ UNCHANGED <<coder, pc, in_pos, in_size, dict_avail, ret, last, ev, hdr,
                   body, hist, props, props_out, stream>>

\* The caller hands the same next piece of the input to both sessions, as
\* long as the calls return LZMA_OK.  No session is decoded whose
\* initialisation failed.
FeedBoth ==
    /\ rs.init = LZMA_OK /\ twin.init = LZMA_OK
    /\ rs.ret \in {"none", LZMA_OK}
    /\ rs.pos = Len(stream.input)
    /\ \E n \in 0..MaxPiece :
         /\ Len(stream.input) + n <= MaxTwin
         /\ \E piece \in [1..n -> TwinBytes] :
              LET input == stream.input \o piece
              IN  /\ stream' = [stream EXCEPT !.input = input]
                  /\ rs' = lzma2_decode(rs, input, Len(input), stream)
                  /\ twin' = lzma2_decode(twin, input, Len(input), stream)
    /\ UNCHANGED <<coder, pc, in_pos, in_size, dict_avail, ret, last, ev, hdr,
                   body, hist, props, props_out>>

NextReinit == DecoderEnd \/ Reinit \/ FeedBoth

SpecReinit == InitReinit /\ [][NextReinit]_vars

\* The fields lzma2_decoder_init does not write.
Leftover(c) ==
    <<c.next_sequence, c.uncompressed_size, c.compressed_size, c.options>>

\* The two sessions have returned the same statuses, consumed the same bytes
\* and made the same calls on the dictionary and the inner decoder.
C19_State ==
    (rs.init = LZMA_OK /\ twin.init = LZMA_OK) =>
        /\ rs.ret = twin.ret
        /\ rs.pos = twin.pos
        /\ rs.log = twin.log

\* What lzma2_decoder_init does to an existing coder, whatever status it
\* returns.
C19_Step ==
    (rs.init = UNINIT /\ rs'.init # UNINIT) =>
        \A r \in {<<rs.coder, rs'.coder>>, <<twin.coder, twin'.coder>>} :
           r[1] # NULL =>
              /\ r[2].sequence = "SEQ_CONTROL"
              /\ r[2].need_properties /\ r[2].need_dictionary_reset
              /\ Leftover(r[2]) = Leftover(r[1])

\* C19: lzma2_decoder_init on an existing coder sets the phase to
\* SEQ_CONTROL and both flags and leaves next_sequence, uncompressed_size,
\* compressed_size and options; two sessions that differ in those fields
\* alone and are fed the same input in the same pieces return the same
\* statuses and make the same calls on the dictionary and the inner decoder.
C19_Reinit == []C19_State /\ [][C19_Step]_vars

\* Two sessions have read the control byte and the uncompressed size of a
\* chunk of reset level 3 and made the same calls; compressed_size and
\* options, not written yet, still differ.
C19_Witness ==
    /\ stream.input = <<224, 0, 0>>
    /\ rs.ret = LZMA_OK
    /\ rs.log = <<DictReset, SetUncompressed(1)>>
    /\ twin.coder.compressed_size # rs.coder.compressed_size
    /\ twin.coder.options # rs.coder.options

(***************************************************************************)
(* Progress: a well-formed stream, handed to lzma2_decode in pieces by a   *)
(* caller that keeps calling.                                              *)
(*                                                                         *)
(* The inner decoder takes exactly the declared bytes of a chunk: with     *)
(* input at hand and room in the dictionary it takes at least one byte,    *)
(* and it reports the chunk complete once it has taken them all and has    *)
(* room in the dictionary.                                                 *)
(***************************************************************************)

\* Body sizes of the chunks, and the byte the bodies are made of: as a
\* control byte it would be rejected.
BodySizes == {2}
BodyByte == 3

\* A raw chunk (ctl 1 or 2) and an LZMA chunk (ctl >= 128) with n body bytes;
\* the uncompressed size field is 1, the properties byte 0.
ChunkOf(ctl, n) ==
    IF ctl < 128
      THEN <<ctl, 0, n - 1>> \o [i \in 1..n |-> BodyByte]
      ELSE <<ctl, 0, 0, 0, n - 1>>
             \o (IF ctl >= 192 THEN <<0>> ELSE <<>>)
             \o [i \in 1..n |-> BodyByte]

\* Control bytes a well-formed stream may go on with, after a dictionary
\* reset (dr) and after a chunk of reset level 2 or 3 (pr).
Allowed(dr, pr) ==
    {1, 224} \cup (IF dr THEN {2, 192} ELSE {})
             \cup (IF pr THEN {128, 160} ELSE {})

\* The well-formed streams of at most k chunks: the first chunk resets the
\* dictionary, the first LZMA chunk has reset level 2 or 3, the end marker
\* closes the stream.
RECURSIVE WellFormed(_, _, _)
WellFormed(k, dr, pr) ==
    {<<0>>} \cup
    (IF k = 0 THEN {}
     ELSE UNION {{ChunkOf(c, n) \o t : t \in WellFormed(k - 1, TRUE, pr \/ c >= 192)}
                 : <<c, n>> \in Allowed(dr, pr) \X BodySizes})

\* coder->lzma.code with avail bytes at hand, room in the dictionary and
\* left bytes of the chunk still to take.
InnerLive(avail, room, left) ==
    {[used |-> u, ret |-> r] :
       <<u, r>> \in
         {x \in (0..Min(avail, left)) \X {LZMA_OK, LZMA_STREAM_END} :
            /\ (avail >= 1 /\ room >= 1 /\ left >= 1) => x[1] >= 1
            /\ x[2] = LZMA_STREAM_END => x[1] = left
            /\ (x[1] = left /\ room >= 1) => x[2] = LZMA_STREAM_END}}

InitLive ==
    /\ coder \in NewCoders
    /\ pc = "idle"
    /\ in_pos = 0 /\ in_size = 0 /\ dict_avail = 0
    /\ ret = "none"
    /\ last = NoLast
    /\ ev = <<>>
    /\ hdr = <<>>
    /\ body = 0
    /\ hist = NoHist
    /\ props = IdleProps /\ props_out = IdlePropsOut
    /\ stream \in {[input |-> w, need |-> 0, final |-> LZMA_STREAM_END] :
                      w \in WellFormed(MaxChunks, FALSE, FALSE)}
    /\ rs = IdleRs /\ twin = IdleRs

\* The caller invokes lzma2_decode with the next n bytes of the stream and
\* room d in the dictionary.
LiveCall(n, d) ==
    /\ pc = "idle"
    /\ in_pos + n <= Len(stream.input)
    /\ in_size' = in_pos + n /\ dict_avail' = d
    /\ pc' = "loop"
    /\ ret' = "none"
    /\ UNCHANGED <<coder, in_pos, last, ev, hdr, body, hist, props,
                   props_out, stream, rs, twin>>

\* Any call the caller may make.
LiveCallAny == \E n \in 0..MaxPiece, d \in 0..MaxDict : LiveCall(n, d)

\* A call that offers input, if any is left, and room in the dictionary.
LiveCallFull ==
    \E n \in 1..MaxPiece, d \in 1..MaxDict :
       LiveCall(Min(n, Len(stream.input) - in_pos), d)

\* One loop iteration on the bytes of the stream.
LiveIter ==
    /\ Running
    /\ LET seq == coder.sequence
           b == IF seq \in {"SEQ_LZMA", "SEQ_COPY"}
                  THEN -1 ELSE stream.input[in_pos + 1]
           avail == in_size - in_pos
       IN  \/ /\ seq = "SEQ_CONTROL"
              /\ Apply(SeqControl(coder, b), seq, b, dict_avail)
           \/ /\ seq = "SEQ_UNCOMPRESSED_1"
              /\ Apply(SeqUncompressed1(coder, b), seq, b, dict_avail)
           \/ /\ seq = "SEQ_UNCOMPRESSED_2"
              /\ Apply(SeqUncompressed2(coder, b), seq, b, dict_avail)
           \/ /\ seq = "SEQ_COMPRESSED_0"
              /\ Apply(SeqCompressed0(coder, b), seq, b, dict_avail)
           \/ /\ seq = "SEQ_COMPRESSED_1"
              /\ Apply(SeqCompressed1(coder, b), seq, b, dict_avail)
           \/ /\ seq = "SEQ_PROPERTIES"
              /\ Apply(SeqProperties(coder, b), seq, b, dict_avail)
           \/ /\ seq = "SEQ_LZMA"
              /\ \E i \in InnerLive(avail, dict_avail, Declared - body),
                    room \in 0..dict_avail :
                    Apply(SeqLzma(coder, i.used, i.ret), seq, b, room)
           \/ /\ seq = "SEQ_COPY"
              /\ LET o == SeqCopy(coder, avail, dict_avail)
                 IN  Apply(o, seq, b, dict_avail - o.used)

NextLive == LiveCallAny \/ LiveIter \/ LoopExit

\* A call, once made, runs to its return; the caller keeps calling, and
\* again and again with input and with room in the dictionary.
SpecLive ==
    /\ InitLive /\ [][NextLive]_vars
    /\ WF_vars(LiveIter) /\ WF_vars(LoopExit)
    /\ SF_vars(LiveCallFull)

\* C17: on a well-formed stream, handed over in pieces of any size by a
\* caller that keeps calling and makes room in the dictionary again and
\* again, a call eventually returns LZMA_STREAM_END, the whole stream
\* consumed, and every call before it returns LZMA_OK.
C17_Progress ==
    /\ <>(ret = LZMA_STREAM_END /\ in_pos = Len(stream.input))
    /\ [](Returned => ret \in {LZMA_OK, LZMA_STREAM_END})

\* The end marker was reached after a raw chunk and an LZMA chunk of two
\* bytes each.
C17_Witness ==
    /\ ret = LZMA_STREAM_END
    /\ stream.input = <<1, 0, 1, 3, 3, 192, 0, 0, 0, 1, 0, 3, 3, 0>>
    /\ in_pos = 14 /\ hist.dict_resets = 1 /\ hist.props_read

====
